---- MODULE Spec2Model ----
(***************************************************************************)
(* A model of nimm (src/main.go): one SSH session's bubbletea model and    *)
(* its Update function.  The session state is the Go struct `model`; every *)
(* message the event loop hands to Update is one action.                   *)
(***************************************************************************)
EXTENDS Integers, Sequences, FiniteSets, TLC

(* ------------------------------------------------------------------ *)
(* Program constants and the bounds of the exploration                 *)
(* ------------------------------------------------------------------ *)

\* model.rows, model.cols as set by teaHandler
rows == 4
cols == 7

\* accepted submits of a fresh session (specification Spec) take cells
\* among the first MaxTaken cells of the board; the games that are played to
\* their end start from InitEnd (SpecEnd)
MaxTaken == 0

\* number of timer ticks whose time stamp is told apart
MaxTime == 1

RowIdx == 0 .. (rows - 1)
ColIdx == 0 .. (cols - 1)

\* the window sizes a resize message (and the pty at connect) can carry
\* widest terminal of the resize events of SpecView
MaxWidth == 30

PtySize == [Width |-> 80, Height |-> 24]
WinSizes == { [Width |-> 40, Height |-> 12] }

VARIABLES
    m,        \* the model value the event loop holds (struct model)
    running,  \* the event loop has not ended
    quitting, \* Update has returned the command tea.Quit and the quit
              \* message of that command has not reached the event loop
    last,     \* the branch of Update the last processed message took
    before,   \* when the last two messages were both select keys: the
              \* branch the first of them took; "-" otherwise
    moves,    \* number of accepted submits so far in this session
    timer     \* where the timer goroutine of newProg is in its loop:
              \* "wait" in <-time.After, "send" at p.Send

vars == << m, running, quitting, last, before, moves, timer >>

(* ------------------------------------------------------------------ *)
(* The fresh model built by teaHandler                                 *)
(* ------------------------------------------------------------------ *)

FieldLit ==
    << << FALSE, FALSE, FALSE, TRUE,  FALSE, FALSE, FALSE >>,
       << FALSE, FALSE, TRUE,  TRUE,  TRUE,  FALSE, FALSE >>,
       << FALSE, TRUE,  TRUE,  TRUE,  TRUE,  TRUE,  FALSE >>,
       << TRUE,  TRUE,  TRUE,  TRUE,  TRUE,  TRUE,  TRUE  >> >>

\* a board literal with the cells of each row pushed to the right
Field0_RightAligned ==
    [r \in RowIdx |-> [c \in ColIdx |-> c >= (cols - 1) - 2 * r]]

\* Go slices are 0-indexed: field[r][c] for r in 0..3, c in 0..6
Field0 == [r \in RowIdx |-> [c \in ColIdx |-> FieldLit[r + 1][c + 1]]]

\* struct fields that teaHandler does not set keep Go's zero value
NewModel ==
    [ width          |-> PtySize.Width,
      height         |-> PtySize.Height,
      time           |-> 0,
      help           |-> [ShowAll |-> FALSE, Width |-> 0],
      field          |-> Field0,
      row            |-> 0,
      col            |-> 0,
      rows           |-> rows,
      cols           |-> cols,
      marked_row     |-> 0,
      marked_columns |-> << >>,
      player         |-> 1 ]

(* ------------------------------------------------------------------ *)
(* Helpers of Update and View                                          *)
(* ------------------------------------------------------------------ *)

\* func available(field [][]bool) int
available(field) ==
    Cardinality({ rc \in RowIdx \X ColIdx : field[rc[1]][rc[2]] })

\* n_available without the `continue` for the marked cells
n_available_NoSkip(mm) ==
    Cardinality({ rc \in RowIdx \X ColIdx : mm.field[rc[1]][rc[2]] })

\* the n_available loop of the submit branch: present cells outside the
\* marked range (marked_columns is <<lo, hi>> here)
n_available(mm) ==
    Cardinality({ rc \in RowIdx \X ColIdx :
        /\ mm.field[rc[1]][rc[2]]
        /\ ~ ( /\ rc[1] = mm.marked_row
               /\ rc[2] >= mm.marked_columns[1]
               /\ rc[2] <= mm.marked_columns[2] ) })

\* the loop with `field[row][col] = !field[row][col]`
ClearRange_Toggle(field, row, lo, hi) ==
    [field EXCEPT ![row] =
        [c \in ColIdx |-> IF c >= lo /\ c <= hi THEN ~ field[row][c]
                          ELSE field[row][c]]]

\* the loop with `col < hi` as its condition
ClearRange_HalfOpen(field, row, lo, hi) ==
    [field EXCEPT ![row] =
        [c \in ColIdx |-> IF c >= lo /\ c < hi THEN FALSE ELSE field[row][c]]]

\* the loop starting at lo + 1
ClearRange_Exclusive(field, row, lo, hi) ==
    [field EXCEPT ![row] =
        [c \in ColIdx |-> IF c > lo /\ c <= hi THEN FALSE ELSE field[row][c]]]

\* the "disable marked columns" loop: field[row][col] = false for lo..hi
ClearRange(field, row, lo, hi) ==
    [field EXCEPT ![row] =
        [c \in ColIdx |-> IF c >= lo /\ c <= hi THEN FALSE ELSE field[row][c]]]

\* sort.Slice(s, less) with less = s[i] < s[j]: ascending insertion sort
RECURSIVE Insert(_, _)
Insert(s, x) ==
    IF s = << >> THEN << x >>
    ELSE IF x < Head(s) THEN << x >> \o s
    ELSE << Head(s) >> \o Insert(Tail(s), x)

\* the select branch without its sort.Slice call
SortAsc_None(s) == s

RECURSIVE SortAsc(_)
SortAsc(s) ==
    IF s = << >> THEN << >> ELSE Insert(SortAsc(Tail(s)), Head(s))

\* append(s[0:1], s[len(s)-1:]...): first and last element only
FirstLast(s) == << s[1], s[Len(s)] >>

(* ------------------------------------------------------------------ *)
(* func (m model) Update(msg tea.Msg) (tea.Model, tea.Cmd)             *)
(* one operator for each case of the two switch statements            *)
(* ------------------------------------------------------------------ *)

\* case timeMsg
UpdateTime(mm, msg) == [mm EXCEPT !.time = msg.time]

\* case tea.WindowSizeMsg
UpdateWindowSize(mm, msg) ==
    [mm EXCEPT !.height = msg.Height,
               !.width = msg.Width,
               !.help = [@ EXCEPT !.Width = msg.Width]]

\* which return of the Submit case is taken
SubmitBranch(mm) ==
    IF mm.marked_columns = << >> THEN "submit_nil"
    ELSE IF n_available(mm) = 0 THEN "submit_none_left"
    ELSE "submit_ok"

\* the Submit case without the n_available == 0 return
UpdateSubmit_Unchecked(mm) ==
    IF mm.marked_columns = << >> THEN mm
    ELSE [mm EXCEPT
            !.field = ClearRange(mm.field, mm.marked_row,
                                 mm.marked_columns[1], mm.marked_columns[2]),
            !.row = 0,
            !.col = 0,
            !.marked_columns = << >>,
            !.marked_row = mm.rows,
            !.player = (mm.player % 2) + 1]

\* the Submit case with `m.player++` alone
UpdateSubmit_NoWrap(mm) ==
    IF mm.marked_columns = << >> THEN mm
    ELSE IF n_available(mm) = 0 THEN mm
    ELSE [mm EXCEPT
            !.field = ClearRange(mm.field, mm.marked_row,
                                 mm.marked_columns[1], mm.marked_columns[2]),
            !.row = 0,
            !.col = 0,
            !.marked_columns = << >>,
            !.marked_row = mm.rows,
            !.player = mm.player + 1]

\* the Submit case resetting cursor and selection before the rejection
UpdateSubmit_ResetFirst(mm) ==
    IF mm.marked_columns = << >> THEN mm
    ELSE IF n_available(mm) = 0
         THEN [mm EXCEPT !.row = 0, !.col = 0,
                         !.marked_columns = << >>, !.marked_row = mm.rows]
    ELSE [mm EXCEPT
            !.field = ClearRange(mm.field, mm.marked_row,
                                 mm.marked_columns[1], mm.marked_columns[2]),
            !.row = 0,
            !.col = 0,
            !.marked_columns = << >>,
            !.marked_row = mm.rows,
            !.player = (mm.player % 2) + 1]

\* the Submit case without the reset of the selection
UpdateSubmit_KeepsSelection(mm) ==
    IF mm.marked_columns = << >> THEN mm
    ELSE IF n_available(mm) = 0 THEN mm
    ELSE [mm EXCEPT
            !.field = ClearRange(mm.field, mm.marked_row,
                                 mm.marked_columns[1], mm.marked_columns[2]),
            !.row = 0,
            !.col = 0,
            !.player = (mm.player % 2) + 1]

\* the Submit case rejecting a move that leaves one cell or none
UpdateSubmit_LeaveTwo(mm) ==
    IF mm.marked_columns = << >> THEN mm
    ELSE IF n_available(mm) <= 1 THEN mm
    ELSE [mm EXCEPT
            !.field = ClearRange(mm.field, mm.marked_row,
                                 mm.marked_columns[1], mm.marked_columns[2]),
            !.row = 0,
            !.col = 0,
            !.marked_columns = << >>,
            !.marked_row = mm.rows,
            !.player = (mm.player % 2) + 1]

\* case key.Matches(msg, m.keys.Submit)
UpdateSubmit(mm) ==
    IF mm.marked_columns = << >> THEN mm
    ELSE IF n_available(mm) = 0 THEN mm
    ELSE [mm EXCEPT
            !.field = ClearRange(mm.field, mm.marked_row,
                                 mm.marked_columns[1], mm.marked_columns[2]),
            !.row = 0,
            !.col = 0,
            !.marked_columns = << >>,
            !.marked_row = mm.rows,
            !.player = (mm.player % 2) + 1]

\* the Select case without "start new selection if row changed"
RowChanged_Never(mm) == mm.marked_columns

\* marked_columns after "start new selection if row changed"
RowChanged(mm) ==
    IF mm.marked_row # mm.row THEN << >> ELSE mm.marked_columns

\* the cancel test with strict comparisons
OnMarked_Strict(mc, col) == Len(mc) > 0 /\ col > mc[1] /\ col < mc[2]

\* "cancel selection when on already marked column"
OnMarked(mc, col) == Len(mc) > 0 /\ col >= mc[1] /\ col <= mc[2]

\* which return of the Select case is taken
SelectBranch(mm) ==
    IF ~ mm.field[mm.row][mm.col] THEN "select_absent"
    ELSE IF OnMarked(RowChanged(mm), mm.col) THEN "select_cancel"
    ELSE IF RowChanged(mm) = << >> THEN "select_new"
    ELSE "select_extend"

\* the Select case without "cancel selection when on already marked column"
UpdateSelect_NoCancel(mm) ==
    IF ~ mm.field[mm.row][mm.col] THEN mm
    ELSE LET mc == RowChanged(mm)
             m1 == [mm EXCEPT !.marked_columns = mc, !.marked_row = mm.row]
         IN  [m1 EXCEPT !.marked_columns =
                            FirstLast(SortAsc(Append(mc, mm.col)))]

\* the Select case with the row change handled before the absent-cell return
UpdateSelect_RowFirst(mm) ==
    LET mc == RowChanged(mm)
        m1 == [mm EXCEPT !.marked_columns = mc, !.marked_row = mm.row]
    IN  IF ~ mm.field[mm.row][mm.col] THEN m1
        ELSE IF OnMarked(mc, mm.col)
             THEN [m1 EXCEPT !.marked_columns = << >>]
             ELSE [m1 EXCEPT !.marked_columns =
                                FirstLast(SortAsc(Append(mc, mm.col)))]

\* case key.Matches(msg, m.keys.Select)
UpdateSelect(mm) ==
    IF ~ mm.field[mm.row][mm.col] THEN mm
    ELSE LET mc == RowChanged(mm)
             m1 == [mm EXCEPT !.marked_columns = mc, !.marked_row = mm.row]
         IN  IF OnMarked(mc, mm.col)
             THEN [m1 EXCEPT !.marked_columns = << >>]
             ELSE [m1 EXCEPT !.marked_columns =
                                FirstLast(SortAsc(Append(mc, mm.col)))]

\* the Down case also starting a new selection when the row changes
UpdateDown_NewSelection(mm) ==
    LET r == mm.row + 1
        r1 == IF r > mm.rows - 2 THEN mm.rows - 1 ELSE r
    IN  [mm EXCEPT !.row = r1,
                   !.marked_columns = IF r1 # mm.marked_row THEN << >> ELSE @]

\* case key.Matches(msg, m.keys.Down)
UpdateDown(mm) ==
    LET r == mm.row + 1
    IN  [mm EXCEPT !.row = IF r > mm.rows - 2 THEN mm.rows - 1 ELSE r]

\* case key.Matches(msg, m.keys.Up)
UpdateUp(mm) ==
    LET r == mm.row - 1
    IN  [mm EXCEPT !.row = IF r < 0 THEN 0 ELSE r]

\* the Right case clamping to cols - 2
UpdateRight_Short(mm) ==
    LET c == mm.col + 1
    IN  [mm EXCEPT !.col = IF c > mm.cols - 2 THEN mm.cols - 2 ELSE c]

\* case key.Matches(msg, m.keys.Right)
UpdateRight(mm) ==
    LET c == mm.col + 1
    IN  [mm EXCEPT !.col = IF c > mm.cols - 2 THEN mm.cols - 1 ELSE c]

\* case key.Matches(msg, m.keys.Left)
UpdateLeft(mm) ==
    LET c == mm.col - 1
    IN  [mm EXCEPT !.col = IF c < 0 THEN 0 ELSE c]

\* case key.Matches(msg, m.keys.Help)
UpdateHelp(mm) ==
    [mm EXCEPT !.help = [@ EXCEPT !.ShowAll = ~ mm.help.ShowAll]]

\* messages: the three types Update switches on
TimeMsg(t) == [type |-> "timeMsg", time |-> t]
WindowSizeMsg(sz) ==
    [type |-> "WindowSizeMsg", Width |-> sz.Width, Height |-> sz.Height]
KeyMsg(k) == [type |-> "KeyMsg", key |-> k]

\* the model Update returns
Update(mm, msg) ==
    CASE msg.type = "timeMsg"       -> UpdateTime(mm, msg)
      [] msg.type = "WindowSizeMsg" -> UpdateWindowSize(mm, msg)
      [] msg.type = "KeyMsg" ->
            CASE msg.key = "quit"  -> mm
              [] msg.key = "enter" -> UpdateSubmit(mm)
              [] msg.key = "space" -> UpdateSelect(mm)
              [] msg.key = "down"  -> UpdateDown(mm)
              [] msg.key = "up"    -> UpdateUp(mm)
              [] msg.key = "right" -> UpdateRight(mm)
              [] msg.key = "left"  -> UpdateLeft(mm)
              [] msg.key = "help"  -> UpdateHelp(mm)
              [] OTHER             -> mm

\* the case of Update that handles msg (for submit and select: the return taken)
Branch(mm, msg) ==
    CASE msg.type = "timeMsg"       -> "time"
      [] msg.type = "WindowSizeMsg" -> "resize"
      [] msg.type = "KeyMsg" ->
            CASE msg.key = "enter" -> SubmitBranch(mm)
              [] msg.key = "space" -> SelectBranch(mm)
              [] OTHER             -> msg.key

\* the returns of the Submit case and of the Select case
SubmitLabels == { "submit_nil", "submit_none_left", "submit_ok" }
SelectLabels == { "select_absent", "select_cancel", "select_new", "select_extend" }

\* key.Matches(msg, m.keys.Select)
IsSelect(msg) == msg.type = "KeyMsg" /\ msg.key = "space"

\* the command Update returns is tea.Quit
Quits(msg) == msg.type = "KeyMsg" /\ msg.key = "quit"

(* ------------------------------------------------------------------ *)
(* The session: the event loop feeds one message at a time to Update   *)
(* ------------------------------------------------------------------ *)

Init ==
    /\ m = NewModel
    /\ running = TRUE
    /\ quitting = FALSE
    /\ last = "init"
    /\ before = "-"
    /\ moves = 0
    /\ timer = "wait"

\* one message through Update; the loop goes on, and a command tea.Quit
\* that Update returns is run beside it
Handle(msg) ==
    /\ m' = Update(m, msg)
    /\ last' = Branch(m, msg)
    /\ before' = IF IsSelect(msg) /\ last \in SelectLabels THEN last ELSE "-"
    /\ moves' = IF Branch(m, msg) = "submit_ok" THEN moves + 1 ELSE moves
    /\ quitting' = (quitting \/ Quits(msg))
    /\ running' = running

\* the timer goroutine of newProg: `<-time.After(1 * time.Second)` returns
\* and the goroutine is at p.Send, whatever the event loop is doing. While
\* the loop runs, time stamps are told apart up to MaxTime
TimerWake ==
    /\ timer = "wait"
    /\ running => m.time < MaxTime
    /\ timer' = "send"
    /\ UNCHANGED << m, running, quitting, last, before, moves >>

\* the event loop takes the timeMsg: p.Send returns, Update handles the
\* message, the goroutine is back in time.After
Tick ==
    /\ running
    /\ timer = "send"
    /\ Handle(TimeMsg(m.time + 1))
    /\ timer' = "wait"

Resize ==
    /\ running
    /\ (\E sz \in WinSizes : Handle(WindowSizeMsg(sz)))
    /\ timer' = timer

KeyQuit ==
    /\ running
    /\ Handle(KeyMsg("quit"))
    /\ timer' = timer

\* the quit message of the command tea.Quit reaches the event loop, which
\* ends without handing it to Update
QuitMsg ==
    /\ running
    /\ quitting
    /\ running' = FALSE
    /\ quitting' = FALSE
    /\ UNCHANGED << m, last, before, moves, timer >>

KeySubmit ==
    /\ running
    /\ Handle(KeyMsg("enter"))
    /\ timer' = timer

KeySelect ==
    /\ running
    /\ Handle(KeyMsg("space"))
    /\ timer' = timer

KeyDown ==
    /\ running
    /\ Handle(KeyMsg("down"))
    /\ timer' = timer

KeyUp ==
    /\ running
    /\ Handle(KeyMsg("up"))
    /\ timer' = timer

KeyRight ==
    /\ running
    /\ Handle(KeyMsg("right"))
    /\ timer' = timer

KeyLeft ==
    /\ running
    /\ Handle(KeyMsg("left"))
    /\ timer' = timer

KeyHelp ==
    /\ running
    /\ Handle(KeyMsg("help"))
    /\ timer' = timer

\* the place of cell (r, c) among the present cells of the fresh board,
\* counted row by row from the top left
Place(r, c) ==
    Cardinality({ rc \in RowIdx \X ColIdx :
        /\ NewModel.field[rc[1]][rc[2]]
        /\ rc[1] < r \/ (rc[1] = r /\ rc[2] <= c) })

\* accepted submits are explored as long as they take cells among the first
\* MaxTaken of the fresh board
WithinMoves ==
    SubmitBranch(m) = "submit_ok" =>
        \A rc \in RowIdx \X ColIdx :
            (m.field[rc[1]][rc[2]] /\ ~ UpdateSubmit(m).field[rc[1]][rc[2]])
                => Place(rc[1], rc[2]) <= MaxTaken

Next ==
    \/ TimerWake
    \/ Tick
    \/ Resize
    \/ KeyQuit
    \/ QuitMsg
    \/ WithinMoves /\ KeySubmit
    \/ KeySelect
    \/ KeyDown
    \/ KeyUp
    \/ KeyRight
    \/ KeyLeft
    \/ KeyHelp

Spec == Init /\ [][Next]_vars

(* ------------------------------------------------------------------ *)
(* The end of a game: the session after a fixed opening of three moves *)
(* ------------------------------------------------------------------ *)

\* the event loop applied to a sequence of key presses
RECURSIVE Play(_, _)
Play(mm, ks) ==
    IF ks = << >> THEN mm ELSE Play(Update(mm, KeyMsg(Head(ks))), Tail(ks))

\* the number of those key presses that were accepted submits
RECURSIVE Accepted(_, _)
Accepted(mm, ks) ==
    IF ks = << >> THEN 0
    ELSE (IF Branch(mm, KeyMsg(Head(ks))) = "submit_ok" THEN 1 ELSE 0)
         + Accepted(Update(mm, KeyMsg(Head(ks))), Tail(ks))

\* move 1 takes (2, 1..5), move 2 takes (1, 3..4), move 3 takes (3, 1..4):
\* row 0 keeps column 3, row 1 column 2, row 3 columns 0, 5 and 6
Opening ==
    << "down", "down", "right", "space",
       "right", "right", "right", "right", "space", "enter",
       "down", "right", "right", "space", "right", "right", "space", "enter",
       "down", "down", "down", "right", "space",
       "right", "right", "right", "space", "enter" >>

InitEnd ==
    /\ m = Play(NewModel, Opening)
    /\ running = TRUE
    /\ quitting = FALSE
    /\ last = Branch(Play(NewModel, SubSeq(Opening, 1, Len(Opening) - 1)),
                     KeyMsg(Opening[Len(Opening)]))
    /\ before = "-"
    /\ moves = Accepted(NewModel, Opening)
    /\ timer = "wait"

NextEnd ==
    \/ TimerWake
    \/ Tick
    \/ Resize
    \/ KeyQuit
    \/ QuitMsg
    \/ KeySubmit
    \/ KeySelect
    \/ KeyDown
    \/ KeyUp
    \/ KeyRight
    \/ KeyLeft
    \/ KeyHelp

SpecEnd == InitEnd /\ [][NextEnd]_vars

\* the opening reaches the intended position
OpeningOk ==
    /\ available(Play(NewModel, Opening).field) = 4
    /\ Accepted(NewModel, Opening) = 3

(* ------------------------------------------------------------------ *)
(* func (m model) View() string: the status line                       *)
(* ------------------------------------------------------------------ *)

\* the status text with `available(m.field) == 0` as its test
StatusLine_Zero(mm) ==
    IF available(mm.field) = 0
    THEN << "Player ", mm.player, " lost  " >>
    ELSE << "Player ", mm.player, "'s turn" >>

\* fmt.Sprintf("Player %d lost  ", m.player) when one cell is available,
\* fmt.Sprintf("Player %d's turn", m.player) otherwise
StatusLine(mm) ==
    IF available(mm.field) = 1
    THEN << "Player ", mm.player, " lost  " >>
    ELSE << "Player ", mm.player, "'s turn" >>

(* ------------------------------------------------------------------ *)
(* The goroutines once the event loop has ended                        *)
(* ------------------------------------------------------------------ *)

\* `for { <-time.After(1 * time.Second); p.Send(...) }` has no exit and no
\* cancellation: after tea.Quit the second still elapses (TimerWake), and
\* p.Send returns without an event loop to take the message; the goroutine
\* goes round its loop again
TimerDrop ==
    /\ ~ running
    /\ timer = "send"
    /\ timer' = "wait"
    /\ UNCHANGED << m, running, quitting, last, before, moves >>

NextLive ==
    \/ Next
    \/ TimerDrop

\* the Go scheduler runs a goroutine whenever it can take a step
SpecLive ==
    /\ Init
    /\ [][NextLive]_vars
    /\ WF_vars(QuitMsg)
    /\ WF_vars(TimerWake)
    /\ WF_vars(TimerDrop)

(* ------------------------------------------------------------------ *)
(* Vocabulary of the properties                                        *)
(* ------------------------------------------------------------------ *)

Cells == RowIdx \X ColIdx

\* availableCount of a model value
Count(mm) == Cardinality({ rc \in Cells : mm.field[rc[1]][rc[2]] })

\* cell (r, c) lies in the marked range of mm
Selected(mm, r, c) ==
    /\ mm.marked_columns # << >>
    /\ r = mm.marked_row
    /\ mm.marked_columns[1] <= c
    /\ c <= mm.marked_columns[2]

\* present cells that are not in the marked range
Remaining(mm) ==
    Cardinality({ rc \in Cells :
        mm.field[rc[1]][rc[2]] /\ ~ Selected(mm, rc[1], rc[2]) })

\* the step just taken handled a submit key / a select key
\* a step of the event loop in which Update handles a message. The other
\* steps are the end of the loop and the timer goroutine's, from
\* <-time.After to p.Send and back after the end
MsgStep == running /\ running' /\ (timer' = timer \/ timer = "send")

\* the branch of Update a step takes; "-" when the step is the goroutine's
Step == IF MsgStep THEN last' ELSE "-"

SubmitStep == Step \in SubmitLabels
SelectStep == Step \in SelectLabels

\* the game state: everything but the window size, the time and the help flag
Game(mm) ==
    << mm.field, mm.player, mm.row, mm.col, mm.marked_row, mm.marked_columns >>

Min(a, b) == IF a < b THEN a ELSE b
Max(a, b) == IF a > b THEN a ELSE b

(* ------------------------------------------------------------------ *)
(* The properties                                                      *)
(* ------------------------------------------------------------------ *)

\* C1: in every reachable state at least one cell is present, and a submit
\* whose selection covers every present cell returns the model unchanged.
C1_NeverEmpty ==
    /\ Count(m) >= 1
    /\ (m.marked_columns # << >> /\ Remaining(m) = 0)
          => Update(m, KeyMsg("enter")) = m

\* a submit of a selection that covers both remaining cells was rejected
C1_Witness ==
    /\ last = "submit_none_left"
    /\ Count(m) = 2
    /\ m.marked_columns # << >>
    /\ Remaining(m) = 0

\* C2: terminal freeze: from a state with one present cell, every step
\* (select, submit, cursor, resize, tick, help) keeps the board and the
\* player, so availableCount stays 1 for the rest of the session.
C2_TerminalFreeze ==
    [][ Count(m) = 1 =>
          /\ m'.field = m.field
          /\ m'.player = m.player
          /\ Count(m') = 1 ]_vars

\* the last cell was selected and its submit rejected
C2_Witness ==
    /\ Count(m) = 1
    /\ last = "submit_none_left"
    /\ m.field[m.row][m.col]

\* C3: no step makes an absent cell present, availableCount never grows,
\* and every step that is not an accepted submit leaves all cells as they
\* were; an accepted submit is the only step that lowers availableCount.
C3_Monotonic ==
    [][ /\ (Step # "submit_ok") => m'.field = m.field
        /\ (m'.field # m.field) =>
              /\ \A rc \in Cells : m'.field[rc[1]][rc[2]] => m.field[rc[1]][rc[2]]
              /\ Count(m') <= Count(m)
              /\ (Count(m') < Count(m)) => Step = "submit_ok" ]_vars

\* an accepted submit removed cells from the board of InitEnd
C3_Witness ==
    /\ last = "submit_ok"
    /\ Count(m) < Count(Play(NewModel, Opening))

\* C4: player is 1 or 2; an accepted submit turns 1 into 2 and 2 into 1,
\* and no other step changes it.
C4_TurnAlternation ==
    [][ /\ m.player \in {1, 2}
        /\ m'.player \in {1, 2}
        /\ (Step = "submit_ok") =>
              /\ m'.player # m.player
              /\ m'.player = (m.player % 2) + 1
        /\ (Step # "submit_ok") => m'.player = m.player ]_vars

\* both directions of the flip have happened after InitEnd
C4_Witness ==
    /\ last = "submit_ok"
    /\ m.player = 2
    /\ moves = Accepted(NewModel, Opening) + 2

\* C5: an accepted submit (marked range <<lo, hi>> non-empty, some present
\* cell outside it) clears exactly the cells (marked_row, lo..hi), keeps all
\* other cells, puts the cursor on (0, 0), empties the marked range, sets
\* marked_row to rows and flips the player.
C5_AcceptedSubmit ==
    [][ (SubmitStep /\ m.marked_columns # << >> /\ Remaining(m) > 0) =>
          /\ \A rc \in Cells :
                m'.field[rc[1]][rc[2]] =
                    IF Selected(m, rc[1], rc[2]) THEN FALSE
                    ELSE m.field[rc[1]][rc[2]]
          /\ m'.row = 0
          /\ m'.col = 0
          /\ m'.marked_columns = << >>
          /\ m'.marked_row = rows
          /\ m'.player = (m.player % 2) + 1 ]_vars

\* the first move after InitEnd took (3, 0..5), a range that spans the
\* absent columns 1..4, and left (3, 6)
C5_Witness ==
    /\ last = "submit_ok"
    /\ moves = Accepted(NewModel, Opening) + 1
    /\ \A c \in ColIdx : m.field[3][c] = (c = 6)
    /\ m.row = 0 /\ m.col = 0
    /\ m.marked_row = rows /\ m.marked_columns = << >>

\* C6: a submit with an empty marked range, or with a selection that covers
\* every present cell, leaves board, player, cursor, marked_row and
\* marked range as they were.
C6_IllegalSubmit ==
    [][ (SubmitStep /\ (m.marked_columns = << >> \/ Remaining(m) = 0)) =>
          Game(m') = Game(m) ]_vars

\* a rejected submit left the selection and the cursor in place
C6_Witness ==
    /\ last \in { "submit_nil", "submit_none_left" }
    /\ m.marked_columns # << >>
    /\ << m.row, m.col >> # << 0, 0 >>

\* C7: the marked range is empty or a pair <<lo, hi>> with
\* 0 <= lo <= hi <= cols - 1.
C7_RangeWellFormed ==
    \/ m.marked_columns = << >>
    \/ /\ Len(m.marked_columns) = 2
       /\ 0 <= m.marked_columns[1]
       /\ m.marked_columns[1] <= m.marked_columns[2]
       /\ m.marked_columns[2] <= cols - 1

\* a range was extended to the left, down to column 0, and spans row 3
C7_Witness ==
    /\ last = "select_extend"
    /\ m.col = 0
    /\ m.marked_row = 3
    /\ m.marked_columns = << 0, cols - 1 >>

\* C8: a select on a present cell (row, col) that is not in the marked
\* range: if row differs from marked_row or the range is empty, the
\* selection becomes row with <<col, col>>; otherwise <<lo, hi>> becomes
\* <<min(lo, col), max(hi, col)>> in the same row, whether or not the cells
\* in between are present.  Board, cursor and player stay.
C8_SelectResult ==
    [][ (SelectStep /\ m.field[m.row][m.col] /\ ~ Selected(m, m.row, m.col)) =>
          /\ m'.marked_row = m.row
          /\ m'.marked_columns =
                IF m.row # m.marked_row \/ m.marked_columns = << >>
                THEN << m.col, m.col >>
                ELSE << Min(m.marked_columns[1], m.col),
                        Max(m.marked_columns[2], m.col) >>
          /\ m'.field = m.field
          /\ m'.player = m.player
          /\ m'.row = m.row /\ m'.col = m.col ]_vars

\* (3, 0) was marked and the range extended to (3, 5), across the absent
\* columns 1..4
C8_Witness ==
    /\ last = "select_extend"
    /\ m.marked_row = 3
    /\ m.marked_columns = << 0, 5 >>
    /\ m.row = 3 /\ m.col = 5
    /\ \A c \in 1 .. 4 : ~ m.field[3][c]

\* C9: a select on a present cell of marked_row inside the non-empty range
\* <<lo, hi>> (also <<col, col>>) empties the range and keeps board, cursor
\* and player; a select that marked a cell from an empty selection,
\* followed at once by a second select, ends with an empty range.
C9_Cancel ==
    [][ /\ (SelectStep /\ m.field[m.row][m.col] /\ Selected(m, m.row, m.col)) =>
              /\ m'.marked_columns = << >>
              /\ m'.field = m.field
              /\ m'.row = m.row /\ m'.col = m.col
              /\ m'.player = m.player
        /\ (SelectStep /\ last = "select_new") => m'.marked_columns = << >> ]_vars

\* on the fresh board, with the cursor on (2, 2): a select marked the
\* cell from an empty selection and the next message, a select again,
\* cancelled it
C9_Witness ==
    /\ before = "select_new"
    /\ last = "select_cancel"
    /\ m.field = Field0
    /\ m.row = 2 /\ m.col = 2
    /\ m.marked_row = 2
    /\ m.marked_columns = << >>

\* C10 as stated: two selects in succession on a present cell that lay in
\* the marked range of its row leave the marked range empty.
C10_TwiceEmpty ==
    before = "select_cancel" => m.marked_columns = << >>

\* C10 as amended: the first of the two selects empties the marked range,
\* the second marks the cell again as the range <<col, col>> of its row.
C10_TwiceMarksAgain ==
    [][ /\ (SelectStep /\ m.field[m.row][m.col] /\ Selected(m, m.row, m.col)) =>
              /\ Step = "select_cancel"
              /\ m'.marked_columns = << >>
        /\ (MsgStep /\ before' = "select_cancel") =>
              /\ m.marked_columns = << >>
              /\ m'.marked_columns = << m.col, m.col >>
              /\ m'.marked_row = m.row
              /\ m'.row = m.row /\ m'.col = m.col ]_vars

\* the second select has acted: the range is <<col, col>> again
C10_Witness ==
    /\ before = "select_cancel"
    /\ last = "select_new"
    /\ m.marked_columns = << m.col, m.col >>
    /\ m.marked_row = m.row

\* the cases of Update that move the cursor
MoveLabels == { "down", "up", "right", "left" }

\* C11: a select while the cursor is on an absent cell changes nothing:
\* marked_row, marked range, board, cursor and player stay, also when the
\* cursor row differs from marked_row.
C11_SelectAbsent ==
    [][ (SelectStep /\ ~ m.field[m.row][m.col]) => Game(m') = Game(m) ]_vars

\* a select on an absent cell of another row left a marked range in place
C11_Witness ==
    /\ last = "select_absent"
    /\ ~ m.field[m.row][m.col]
    /\ m.marked_columns # << >>
    /\ m.marked_row # m.row

\* C12: the cursor is always inside the board; a directional key moves the
\* addressed coordinate by exactly 1 when the result is inside the board and
\* leaves it at the edge otherwise, whether or not the cell is present.
C12_CursorClamped ==
    [][ /\ m.row \in RowIdx /\ m.col \in ColIdx
        /\ m'.row \in RowIdx /\ m'.col \in ColIdx
        /\ (Step = "down") =>
              /\ m'.row = IF m.row + 1 <= rows - 1 THEN m.row + 1 ELSE m.row
              /\ m'.col = m.col
        /\ (Step = "up") =>
              /\ m'.row = IF m.row - 1 >= 0 THEN m.row - 1 ELSE m.row
              /\ m'.col = m.col
        /\ (Step = "right") =>
              /\ m'.col = IF m.col + 1 <= cols - 1 THEN m.col + 1 ELSE m.col
              /\ m'.row = m.row
        /\ (Step = "left") =>
              /\ m'.col = IF m.col - 1 >= 0 THEN m.col - 1 ELSE m.col
              /\ m'.row = m.row ]_vars

\* a right key left the cursor in the last column of row 0, an absent cell
C12_Witness ==
    /\ last = "right"
    /\ m.row = 0
    /\ m.col = cols - 1
    /\ ~ m.field[m.row][m.col]

\* C13: a cursor key changes only the cursor, a resize only width, height
\* and help width, a tick only the time, a help key only the help flag;
\* board, marked_row, marked range and player stay under all of them.
C13_FrameOfNonGameEvents ==
    [][ /\ (Step \in MoveLabels) =>
              [m' EXCEPT !.row = m.row, !.col = m.col] = m
        /\ (Step = "resize") =>
              [m' EXCEPT !.width = m.width, !.height = m.height,
                         !.help = [@ EXCEPT !.Width = m.help.Width]] = m
        /\ (Step = "time") => [m' EXCEPT !.time = m.time] = m
        /\ (Step = "help") =>
              /\ [m' EXCEPT !.help = [@ EXCEPT !.ShowAll = m.help.ShowAll]] = m
              /\ m'.help.ShowAll = ~ m.help.ShowAll
        /\ (Step \in MoveLabels \cup { "resize", "time", "help" }) =>
              /\ m'.field = m.field
              /\ m'.marked_row = m.marked_row
              /\ m'.marked_columns = m.marked_columns
              /\ m'.player = m.player ]_vars

\* a cursor key took the cursor off the marked row and the range is kept
C13_Witness ==
    /\ last = "down"
    /\ m.marked_columns # << >>
    /\ m.row # m.marked_row
    /\ m.width = 40
    /\ m.time = 1
    /\ m.help.ShowAll

\* C14: when the event loop of the session has ended, its tick source is
\* cancelled: the timer goroutine eventually stops.
C14_TimerCancelled ==
    (~ running) ~> (timer = "stopped")

\* the number of present cells of row r
RowCount(mm, r) == Cardinality({ c \in ColIdx : mm.field[r][c] })

\* C15 as stated: a fresh session has 4 rows and 7 columns, 2*i+1 present
\* cells in row i (16 in all) which occupy columns 6-2*i .. 6, player 1 and
\* an empty selection.
C15_RightAligned ==
    (last = "init") =>
        /\ m.rows = 4 /\ m.cols = 7
        /\ DOMAIN m.field = 0 .. 3
        /\ \A i \in 0 .. 3 :
              /\ DOMAIN m.field[i] = 0 .. 6
              /\ RowCount(m, i) = 2 * i + 1
              /\ \A c \in 0 .. 6 : m.field[i][c] <=> (6 - 2 * i <= c /\ c <= 6)
        /\ Count(m) = 16
        /\ m.player = 1
        /\ m.marked_columns = << >>

\* C15 as amended: the same, with the present cells of each row centred:
\* row i occupies columns 3-i .. 3+i.  The board stays so until the first
\* accepted submit.
C15_FreshBoard ==
    /\ (last = "init") =>
          /\ m.rows = 4 /\ m.cols = 7
          /\ m.player = 1
          /\ m.marked_columns = << >>
    /\ (moves = 0) =>
          /\ DOMAIN m.field = 0 .. 3
          /\ \A i \in 0 .. 3 :
                /\ DOMAIN m.field[i] = 0 .. 6
                /\ RowCount(m, i) = 2 * i + 1
                /\ \A c \in 0 .. 6 : m.field[i][c] <=> (3 - i <= c /\ c <= 3 + i)
          /\ Count(m) = 16

\* the fresh session: the one cell of row 0 is in column 3, not in column 6
C15_Witness ==
    /\ last = "init"
    /\ moves = 0
    /\ m.field[0][3]
    /\ ~ m.field[0][6]
    /\ Count(m) = 16

\* the status a frame must show for a model value
Lost(p) == << "Player ", p, " lost  " >>
Turn(p) == << "Player ", p, "'s turn" >>

\* C16: the status line is "Player p lost" exactly when one cell is
\* present and "Player p's turn" otherwise, p being the current player;
\* after the move that leaves one cell, p is not the player who made it.
C16_StatusDerived ==
    [][ /\ StatusLine(m) = IF Count(m) = 1 THEN Lost(m.player) ELSE Turn(m.player)
        /\ StatusLine(m') = IF Count(m') = 1 THEN Lost(m'.player) ELSE Turn(m'.player)
        /\ (Step = "submit_ok" /\ Count(m') = 1) =>
              /\ StatusLine(m') # Lost(m.player)
              /\ StatusLine(m') = Lost((m.player % 2) + 1) ]_vars

\* the move that left one cell was made by player 2: the frame names player 1
C16_Witness ==
    /\ last = "submit_ok"
    /\ Count(m) = 1
    /\ StatusLine(m) = Lost(1)

\* C17: whenever the marked range is non-empty, marked_row is a row of the
\* board (not the value rows) and the cells at both ends of the range are
\* present, so the Submit case indexes field inside its bounds.
C17_MarkedEndsPresent ==
    (m.marked_columns # << >>) =>
        /\ m.marked_row \in RowIdx
        /\ Len(m.marked_columns) = 2
        /\ m.marked_columns[1] \in ColIdx
        /\ m.marked_columns[2] \in ColIdx
        /\ m.field[m.marked_row][m.marked_columns[1]]
        /\ m.field[m.marked_row][m.marked_columns[2]]

\* after (3, 0) was taken, a new range <<5, 6>> was marked in row 3
C17_Witness ==
    /\ last = "select_extend"
    /\ moves > Accepted(NewModel, Opening)
    /\ ~ m.field[3][0]
    /\ m.marked_row = 3
    /\ m.marked_columns = << 5, 6 >>

\* C18: every accepted submit lowers availableCount (the player never flips
\* over an unchanged board), so the accepted submits of a session number at
\* most the 16 cells of the fresh board less the one that always stays.
C18_EveryMoveTakesACell ==
    [][ /\ (Step = "submit_ok") =>
              /\ Count(m') < Count(m)
              /\ moves' = moves + 1
        /\ (m'.player # m.player) => m'.field # m.field
        /\ moves' + Count(m') <= Count(NewModel)
        /\ moves' <= 15 ]_vars

\* the game of InitEnd played out one cell at a time: three more moves
C18_Witness ==
    /\ last = "submit_ok"
    /\ Count(m) = 1
    /\ moves = Accepted(NewModel, Opening) + 3

\* n times the key k
RECURSIVE Rep(_, _)
Rep(k, n) == IF n <= 0 THEN << >> ELSE << k >> \o Rep(k, n - 1)

\* cursor keys that take the cursor of mm to (r, c)
MoveKeys(mm, r, c) ==
    Rep("down", r - mm.row) \o Rep("up", mm.row - r)
        \o Rep("right", c - mm.col) \o Rep("left", mm.col - c)

\* the select keys that leave exactly <<c, c>> marked on the present cell
\* (r, c): one from an empty range or another row, two when (r, c) is in the
\* range (cancel, mark), three when it is outside (extend, cancel, mark)
Presses(mm, r, c) ==
    IF mm.marked_columns = << >> \/ mm.marked_row # r THEN 1
    ELSE IF Selected(mm, r, c) THEN 2
    ELSE 3

\* a present cell of mm, and the keys that take it alone
Target(mm) == CHOOSE rc \in Cells : mm.field[rc[1]][rc[2]]
TakeOne(mm) ==
    LET rc == Target(mm)
    IN  MoveKeys(mm, rc[1], rc[2])
            \o Rep("space", Presses(mm, rc[1], rc[2]))
            \o << "enter" >>

\* TakeOne again and again, as long as it takes a cell
RECURSIVE PlayOut(_)
PlayOut(mm) ==
    IF Count(mm) <= 1 \/ Count(Play(mm, TakeOne(mm))) >= Count(mm) THEN mm
    ELSE PlayOut(Play(mm, TakeOne(mm)))

\* C19: while the event loop runs, from every state with two or more
\* present cells some finite sequence of cursor, select and submit keys
\* ends in an accepted submit (TakeOne is one), and repeating it leads to a
\* state with exactly one present cell.
C19_NeverStuck ==
    running =>
        /\ (Count(m) >= 2) =>
              /\ Accepted(m, TakeOne(m)) = 1
              /\ SubmitBranch(Play(m, SubSeq(TakeOne(m), 1, Len(TakeOne(m)) - 1)))
                    = "submit_ok"
              /\ Count(Play(m, TakeOne(m))) < Count(m)
        /\ Count(PlayOut(m)) = 1

\* two cells left, both in row 3, the other one marked: the way to the
\* next move goes through extend, cancel and mark
C19_Witness ==
    /\ running
    /\ Count(m) = 2
    /\ m.marked_columns # << >>
    /\ Presses(m, Target(m)[1], Target(m)[2]) = 3
    /\ Count(Play(m, TakeOne(m))) = 1

(* ------------------------------------------------------------------ *)
(* View: the left pads                                                 *)
(* ------------------------------------------------------------------ *)

\* a uint of a 64-bit build, as four 16-bit limbs, most significant first
Limb == 65536

\* uint(d) of an int d with -Limb < d < Limb: d itself when it is not
\* negative, 2^64 + d when it is
ToUint(d) ==
    IF d >= 0 THEN << 0, 0, 0, d >>
    ELSE << Limb - 1, Limb - 1, Limb - 1, Limb + d >>

\* u / 2 on a uint: long division, the remainder of a limb carried down
Half(u) ==
    LET q1 == u[1] \div 2
        q2 == ((u[1] % 2) * Limb + u[2]) \div 2
        q3 == ((u[2] % 2) * Limb + u[3]) \div 2
        q4 == ((u[3] % 2) * Limb + u[4]) \div 2
    IN  << q1, q2, q3, q4 >>

\* uint(m.width-cw)/2, the indent handed to indent.String
Pad(mm, cw) == Half(ToUint(mm.width - cw))

\* the title "== Nimm ==", the status line and the board
TitlePad(mm) == Pad(mm, 11)
StatusPad(mm) == Pad(mm, 15)
BoardPad(mm) == Pad(mm, 24)

\* a uint is at most the small natural n
AtMost(u, n) == u[1] = 0 /\ u[2] = 0 /\ u[3] = 0 /\ u[4] <= n

\* a session whose terminal is resized to every width up to MaxWidth
ResizeView ==
    /\ running
    /\ (\E w \in 0 .. MaxWidth :
          Handle(WindowSizeMsg([Width |-> w, Height |-> 12])))
    /\ timer' = timer

\* select and submit leave the width alone and are left out
NextView ==
    \/ ResizeView
    \/ TimerWake
    \/ Tick
    \/ KeyQuit
    \/ QuitMsg
    \/ KeyDown
    \/ KeyUp
    \/ KeyRight
    \/ KeyLeft
    \/ KeyHelp

SpecView == Init /\ [][NextView]_vars

\* the pad of a content of width cw is within 0 .. w/2, and is
\* (w - cw) div 2 when the content fits
PadCentres(mm, cw) ==
    /\ \A i \in 1 .. 4 : Pad(mm, cw)[i] >= 0
    /\ AtMost(Pad(mm, cw), mm.width \div 2)
    /\ (mm.width >= cw) => Pad(mm, cw) = << 0, 0, 0, (mm.width - cw) \div 2 >>

\* C20: for every terminal width w >= 0 the left pads of the title (11),
\* the status line (15) and the board (24) are never negative, never more
\* than w/2, and equal (w - contentWidth) div 2 when w >= contentWidth.
C20_PadWithinHalfWidth ==
    /\ PadCentres(m, 11) /\ TitlePad(m) = Pad(m, 11)
    /\ PadCentres(m, 15) /\ StatusPad(m) = Pad(m, 15)
    /\ PadCentres(m, 24) /\ BoardPad(m) = Pad(m, 24)

====
